---- MODULE Spec2Model ----
(***************************************************************************)
(* Preprocessing of a translation unit (a keymap or another configuration  *)
(* file) that includes boards/shields/charybdis/charybdis_layers.h.        *)
(*                                                                         *)
(* The header is a list of preprocessing directives.  The model keeps the  *)
(* preprocessor's macro table, the set of files marked by #pragma once     *)
(* (here: whether the header is marked), the position inside the header    *)
(* while an inclusion is being processed, the diagnostics raised, and the  *)
(* expansions written to the preprocessed output.                          *)
(***************************************************************************)
EXTENDS Integers, Sequences, FiniteSets, TLC

(* ------------------------------ bounds -------------------------------- *)

\* number of #include "charybdis_layers.h" directives in the translation unit
MaxIncludes == 2

\* number of macros defined before the first inclusion (-D, earlier headers)
MaxPredef == 1

\* number of layer-name references the translation unit makes
MaxRefs == 2

(* --------------------- charybdis_layers.h, lines 12-18 ---------------- *)

BASE == 0

POINTER == 1

LOWER == 2

RAISE == 3

SYMBOLS == 4

SCROLL == 5

SNIPING == 6

\* the names the header is documented to define
LayerNames == {"BASE", "POINTER", "LOWER", "RAISE", "SYMBOLS", "SCROLL", "SNIPING"}

\* names a consumer may use that the header does not define
OtherNames == {"ADJUST", "SHIELD_VARIANT"}

Names == LayerNames \cup OtherNames

\* One directive.  cond = "" is a directive outside any #ifdef; cond = N is
\* a directive wrapped in #ifdef N ... #endif.
Pragma == [kind |-> "pragma_once", name |-> "", value |-> 0, cond |-> ""]

Def(n, v) == [kind |-> "define", name |-> n, value |-> v, cond |-> ""]

DefIf(c, n, v) == [kind |-> "define", name |-> n, value |-> v, cond |-> c]

Undefine(n) == [kind |-> "undef", name |-> n, value |-> 0, cond |-> ""]

(* mutants of the header: what a plausible slip in it would look like *)

\* indices written one-based
HeaderOneBased ==
    << Pragma, Def("BASE", 1), Def("POINTER", 2), Def("LOWER", 3), Def("RAISE", 4),
       Def("SYMBOLS", 5), Def("SCROLL", 6), Def("SNIPING", 7) >>

\* a copy-pasted line keeps the index of the line above
HeaderDup ==
    << Pragma, Def("BASE", 0), Def("POINTER", 1), Def("LOWER", 2), Def("RAISE", 3),
       Def("SYMBOLS", 4), Def("SCROLL", 5), Def("SNIPING", 5) >>

\* two lines moved without renumbering
HeaderReordered ==
    << Pragma, Def("BASE", 0), Def("POINTER", 1), Def("RAISE", 3), Def("LOWER", 2),
       Def("SYMBOLS", 4), Def("SCROLL", 5), Def("SNIPING", 6) >>

\* the include guard forgotten
HeaderNoGuard ==
    << Def("BASE", 0), Def("POINTER", 1), Def("LOWER", 2), Def("RAISE", 3),
       Def("SYMBOLS", 4), Def("SCROLL", 5), Def("SNIPING", 6) >>

\* an eighth layer added
HeaderExtra ==
    << Pragma, Def("BASE", 0), Def("POINTER", 1), Def("LOWER", 2), Def("RAISE", 3),
       Def("SYMBOLS", 4), Def("SCROLL", 5), Def("SNIPING", 6), Def("ADJUST", 7) >>

\* no guard, and a name dropped again at the end of the header
HeaderUndef ==
    << Def("BASE", 0), Def("POINTER", 1), Def("LOWER", 2), Def("RAISE", 3),
       Def("SYMBOLS", 4), Def("SCROLL", 5), Def("SNIPING", 6), Undefine("SNIPING") >>

\* a layer that exists for one shield variant only
HeaderPerVariant ==
    << Pragma, Def("BASE", 0), Def("POINTER", 1), Def("LOWER", 2), Def("RAISE", 3),
       Def("SYMBOLS", 4), Def("SCROLL", 5), DefIf("SHIELD_VARIANT", "SNIPING", 6) >>

\* the directives of charybdis_layers.h, in file order (lines 9, 12..18)
Header ==
    << Pragma,
       Def("BASE", BASE),
       Def("POINTER", POINTER),
       Def("LOWER", LOWER),
       Def("RAISE", RAISE),
       Def("SYMBOLS", SYMBOLS),
       Def("SCROLL", SCROLL),
       Def("SNIPING", SNIPING) >>

\* the positions of the header's #define directives of n
DefinesOf(n) ==
    {i \in 1..Len(Header) : Header[i].kind = "define" /\ Header[i].name = n}

\* The replacement lists an earlier definition of n may have: for a name the
\* header defines, the same integer as the header's or another one.
PredefValues(n) ==
    IF DefinesOf(n) = {}
    THEN {1}
    ELSE UNION {{Header[i].value, Header[i].value + 1} : i \in DefinesOf(n)}

(* ------------------------- preprocessor semantics --------------------- *)

\* the macro table after #define n v
WithMacro(m, n, v) ==
    [k \in (DOMAIN m) \cup {n} |-> IF k = n THEN v ELSE m[k]]

\* the macro table after #undef n
WithoutMacro(m, n) == [k \in (DOMAIN m) \ {n} |-> m[k]]

\* an outcome of one directive
Outcome(m, o, dg, f) == [macros |-> m, once |-> o, diag |-> dg, failed |-> f]

\* The outcomes of processing directive d with macro table st.macros.
\* #define of a name whose current replacement list is the same is accepted
\* silently; with a different replacement list it is diagnosed, and the
\* build either stops or goes on with the new definition.
ApplyDirective(d, st) ==
    IF d.cond # "" /\ d.cond \notin DOMAIN st.macros
    THEN {Outcome(st.macros, st.once, {}, FALSE)}
    ELSE CASE d.kind = "pragma_once" ->
                {Outcome(st.macros, TRUE, {}, FALSE)}
           [] d.kind = "define" ->
                IF d.name \notin DOMAIN st.macros \/ st.macros[d.name] = d.value
                THEN {Outcome(WithMacro(st.macros, d.name, d.value), st.once, {}, FALSE)}
                ELSE {Outcome(st.macros, st.once, {"redefined"}, TRUE),
                      Outcome(WithMacro(st.macros, d.name, d.value), st.once,
                              {"redefined"}, FALSE)}
           [] d.kind = "undef" ->
                {Outcome(WithoutMacro(st.macros, d.name), st.once, {}, FALSE)}

\* the states in which the header can be left when processed from directive i
RECURSIVE RunFrom(_, _)
RunFrom(i, st) ==
    IF i > Len(Header)
    THEN {st}
    ELSE UNION { RunFrom(i + 1, [macros |-> o.macros, once |-> o.once]) :
                 o \in {q \in ApplyDirective(Header[i], st) : ~q.failed} }

(* ------------------------------- state -------------------------------- *)

VARIABLES
    macros,   \* the macro table: defined name -> replacement integer
    once,     \* the header has been marked by #pragma once
    pc,       \* 0: in the translation unit; i > 0: before Header[i]
    nIncl,    \* #include directives of the header processed so far
    predef,   \* the macro table as it was before the first inclusion
    diag,     \* diagnostics raised so far
    failed,   \* the build has stopped on an error
    output    \* the expansions of the references made, in order

vars == <<macros, once, pc, nIncl, predef, diag, failed, output>>

Empty == [k \in {} |-> 0]

Init ==
    /\ macros = Empty
    /\ once = FALSE
    /\ pc = 0
    /\ nIncl = 0
    /\ predef = Empty
    /\ diag = {}
    /\ failed = FALSE
    /\ output = <<>>

(* ------------------------------ actions ------------------------------- *)

\* something ahead of the first inclusion defines n as v
PriorDefine(n, v) ==
    /\ pc = 0 /\ ~failed /\ nIncl = 0 /\ output = <<>>
    /\ n \notin DOMAIN macros
    /\ Cardinality(DOMAIN macros) < MaxPredef
    /\ macros' = WithMacro(macros, n, v)
    /\ predef' = macros'
    /\ UNCHANGED <<once, pc, nIncl, diag, failed, output>>

\* #include "charybdis_layers.h": skipped when the file is marked once
Include ==
    /\ pc = 0 /\ ~failed
    /\ nIncl < MaxIncludes
    /\ nIncl' = nIncl + 1
    /\ pc' = IF once \/ Len(Header) = 0 THEN 0 ELSE 1
    /\ UNCHANGED <<macros, once, predef, diag, failed, output>>

\* the next directive of the header
Directive ==
    /\ pc > 0 /\ ~failed
    /\ \E o \in ApplyDirective(Header[pc], [macros |-> macros, once |-> once]) :
          /\ macros' = o.macros
          /\ once' = o.once
          /\ diag' = diag \cup o.diag
          /\ failed' = o.failed
          /\ pc' = IF o.failed THEN pc ELSE IF pc = Len(Header) THEN 0 ELSE pc + 1
    /\ UNCHANGED <<nIncl, predef, output>>

\* the translation unit uses n where an integer is required (int x = n;)
Reference(n) ==
    /\ pc = 0 /\ ~failed
    /\ Len(output) < MaxRefs
    /\ IF n \in DOMAIN macros
       THEN /\ output' = Append(output, [name |-> n, expanded |-> TRUE,
                                         value |-> macros[n], at |-> nIncl])
            /\ UNCHANGED <<diag, failed>>
       ELSE /\ output' = Append(output, [name |-> n, expanded |-> FALSE,
                                         value |-> 0, at |-> nIncl])
            /\ diag' = diag \cup {"undefined"}
            /\ failed' = TRUE
    /\ UNCHANGED <<macros, once, pc, nIncl, predef>>

Next ==
    \/ \E n \in Names : \E v \in PredefValues(n) : PriorDefine(n, v)
    \/ Include
    \/ Directive
    \/ \E n \in Names : Reference(n)

Spec == Init /\ [][Next]_vars

(* ------------------------------ helpers ------------------------------- *)

TypeOK ==
    /\ DOMAIN macros \subseteq Names
    /\ once \in BOOLEAN
    /\ pc \in 0..Len(Header)
    /\ nIncl \in 0..MaxIncludes
    /\ diag \subseteq {"redefined", "undefined"}
    /\ failed \in BOOLEAN
    /\ Len(output) <= MaxRefs

\* an inclusion of the header has been processed to its end
Completed == pc = 0 /\ nIncl >= 1

\* the header's #define of n has been processed in some inclusion
HeaderDefined(n) ==
    /\ nIncl >= 1
    /\ \/ pc = 0
       \/ \E i \in 1..(pc - 1) : Header[i].kind = "define" /\ Header[i].name = n

\* the part of a macro table that concerns the layer names
LayerPart(m) == [n \in (DOMAIN m) \cap LayerNames |-> m[n]]

\* the macro tables one inclusion of the header can leave, starting from m
SingleInclusion(m) == {r.macros : r \in RunFrom(1, [macros |-> m, once |-> FALSE])}

(* ------------------------------ claims -------------------------------- *)

\* the documented index of each layer name
Expected ==
    [n \in LayerNames |->
        CASE n = "BASE" -> 0 [] n = "POINTER" -> 1 [] n = "LOWER" -> 2
          [] n = "RAISE" -> 3 [] n = "SYMBOLS" -> 4 [] n = "SCROLL" -> 5
          [] n = "SNIPING" -> 6]

\* the references made after the header was included
RefsAfter == {i \in 1..Len(output) : output[i].at >= 1}

\* C1: after the header has been included, each of the seven layer names
\* expands to its fixed literal (BASE=0 ... SNIPING=6), and a reference
\* int x = RAISE; made after the inclusion yields 3.
C1_FixedLiterals ==
    /\ Completed =>
          \A n \in LayerNames : n \in DOMAIN macros /\ macros[n] = Expected[n]
    /\ \A i \in RefsAfter :
          output[i].name = "RAISE" => output[i].expanded /\ output[i].value = 3

C1_Witness ==
    /\ Completed
    /\ \E i \in RefsAfter : output[i].name = "RAISE" /\ output[i].value = 3

\* C2: after inclusion, two distinct layer names never expand to the same
\* integer.
C2_Injective ==
    Completed =>
        \A a, b \in LayerNames \cap DOMAIN macros : a # b => macros[a] # macros[b]

C2_Witness ==
    Completed /\ Cardinality({macros[n] : n \in LayerNames \cap DOMAIN macros}) = 7

\* C3: the k-th #define of the header (counting from 0) expands to k, and
\* the set of indices defined is exactly 0..6.
C3_Contiguous ==
    Completed =>
        LET defs == SelectSeq(Header, LAMBDA d : d.kind = "define")
        IN  /\ \A k \in 1..Len(defs) :
                  defs[k].name \in DOMAIN macros /\ macros[defs[k].name] = k - 1
            /\ {macros[n] : n \in LayerNames \cap DOMAIN macros} = 0..6

C3_Witness ==
    /\ Completed
    /\ "SNIPING" \in DOMAIN macros /\ macros["SNIPING"] = 6
    /\ "BASE" \in DOMAIN macros /\ macros["BASE"] = 0

\* C4: including the header again changes nothing: an inclusion after the
\* first skips the body (no directive of the header is processed again),
\* leaves the macro table as it is and raises no diagnostic; and after any
\* number of inclusions the macro table is one that a single inclusion
\* produces.
C4_Idempotent ==
    /\ [](Completed => macros \in SingleInclusion(predef))
    /\ [][(pc = 0 /\ nIncl >= 1 /\ nIncl' = nIncl + 1) =>
             (pc' = 0 /\ macros' = macros /\ diag' = diag /\ failed' = failed)]_vars

C4_Witness == Completed /\ nIncl >= 2 /\ once /\ LayerNames \subseteq DOMAIN macros

\* C5: an inclusion adds exactly the seven layer names to the macro
\* namespace, and leaves every other macro as it was.
C5_ExactlySeven ==
    Completed =>
        /\ DOMAIN macros = (DOMAIN predef) \cup LayerNames
        /\ (DOMAIN macros) \ (DOMAIN predef) = LayerNames \ (DOMAIN predef)
        /\ \A n \in (DOMAIN predef) \ LayerNames : macros[n] = predef[n]

C5_Witness == Completed /\ predef = Empty /\ DOMAIN macros = LayerNames

\* the layer names defined before the inclusion
Collisions == LayerNames \cap DOMAIN predef

\* ... and those of them defined with another replacement list
Conflicts == {n \in Collisions : predef[n] # Expected[n]}

\* the references that were left unexpanded
Unexpanded == {i \in 1..Len(output) : ~output[i].expanded}

\* C6 as stated: a reference to a name the header does not define, or an
\* earlier definition of a name the header defines, ends the build with a
\* diagnostic.
C6_AsStated ==
    /\ Unexpanded # {} => diag # {}
    /\ (Completed /\ Collisions # {}) => diag # {}

\* C6 amended: a reference to a name that neither the header nor anything
\* before it defines is left unexpanded and stops the build with the
\* undefined-symbol diagnostic; an earlier definition of a layer name with a
\* different replacement list gets the macro-redefinition diagnostic when the
\* header's definition meets it; an earlier definition with the same
\* replacement list is accepted silently; there is no other diagnostic.
C6_Amended ==
    /\ \A i \in 1..Len(output) :
          output[i].name \notin (LayerNames \cup DOMAIN predef) => i \in Unexpanded
    /\ \A i \in RefsAfter : output[i].name \in LayerNames => i \notin Unexpanded
    /\ Unexpanded # {} <=> "undefined" \in diag
    /\ Unexpanded # {} => failed
    /\ (Completed /\ Conflicts # {}) => "redefined" \in diag
    /\ "redefined" \in diag => Conflicts # {}
    /\ (failed /\ pc > 0) => "redefined" \in diag
    /\ failed => diag # {}

C6_Witness == failed /\ pc > 0 /\ "redefined" \in diag /\ Conflicts # {}

\* C7: once the header has defined a layer name, no later step changes its
\* definition, and every reference to a layer name made after the inclusion
\* expands to the same integer as the first such reference, whatever number
\* of inclusions lies between them.
C7_NeverMutated ==
    /\ [](\A i, j \in RefsAfter :
            (i < j /\ output[i].name = output[j].name
                   /\ output[i].name \in LayerNames)
            => (output[j].expanded /\ output[j].value = output[i].value))
    /\ [][\A n \in LayerNames :
            (HeaderDefined(n) /\ n \in DOMAIN macros)
            => (n \in DOMAIN macros' /\ macros'[n] = macros[n])]_vars

C7_Witness ==
    \E i, j \in RefsAfter :
        /\ i < j
        /\ output[i].name = output[j].name
        /\ output[i].name \in LayerNames
        /\ output[j].at > output[i].at

\* the macro tables that define no layer name
NonColliding == UNION {[D -> {1}] : D \in SUBSET OtherNames}

\* C8: a build with no earlier definition of a layer name obtains the same
\* name-to-index mapping as every other such build, whatever else was
\* defined before the inclusion.
C8_Unconditional ==
    (Completed /\ Collisions = {}) =>
        \A e \in NonColliding :
            \A m \in SingleInclusion(e) : LayerPart(m) = LayerPart(macros)

C8_Witness ==
    /\ Completed
    /\ "SHIELD_VARIANT" \in DOMAIN predef
    /\ "SNIPING" \in DOMAIN macros

====
